---- MODULE Spec2Model ----
(***************************************************************************)
(* Model of the two runtime hooks of sveltekit-d1-tailwindcss-template:    *)
(*   - the client hook handleError, and                                    *)
(*   - the service worker's install / activate listeners.                  *)
(* JavaScript values are tagged records [t |-> type, v |-> text] so that   *)
(* values of different JavaScript types can be compared.                   *)
(***************************************************************************)
EXTENDS Naturals, Sequences, FiniteSets

\* ------------------------------------------------------------------ bounds
\* handleError invocations, and dispatched worker events, in one behaviour
MaxCalls == 2
MaxSignals == 2

\* ------------------------------------------------------- JavaScript values
Undefined == [t |-> "undefined", v |-> "undefined"]
Null == [t |-> "null", v |-> "null"]
Str(s) == [t |-> "string", v |-> s]
Num(s) == [t |-> "number", v |-> s]
Bool(s) == [t |-> "boolean", v |-> s]

\* an object is its own (data) properties: a function from names to values
Obj(props) == [t |-> "object", v |-> props]

IsNullish(x) == x.t \in {"undefined", "null"}

\* the values an error's `code` attribute is given in the model
CodeValues ==
    { Str("E_FAIL"), Str(""), Num("0"), Bool("false"), Null, Undefined }

\* error objects without / with an own `code` attribute
ErrorsLackingCode ==
    { Obj(<<>>), Obj([message |-> Str("boom")]) }

ErrorsWithCode ==
    { Obj([code |-> c]) : c \in CodeValues }
      \cup { Obj([code |-> c, message |-> Str("boom")]) :
                c \in { Str("E_FAIL"), Bool("false"), Null } }

\* things that are thrown although they are not objects
PrimitiveErrors == { Str("boom"), Num("7") }

ErrorValues == ErrorsLackingCode \cup ErrorsWithCode \cup PrimitiveErrors \cup { Null, Undefined }

\* event descriptors handed over by the framework
EventValues == { Str("navigation"), Str("click") }

HasOwn(o, p) == o.t = "object" /\ p \in DOMAIN o.v

\* ---------------------------------------------------- JavaScript operators
TypeError == [t |-> "throw", v |-> "TypeError"]

IsThrow(x) == x.t = "throw"

\* o.p : member access; a nullish base throws, a primitive base is boxed and
\* has no own `code` / `message`
Member(o, p) ==
    IF IsNullish(o) THEN TypeError
    ELSE IF HasOwn(o, p) THEN o.v[p]
    ELSE Undefined

\* a slip: plain member access where the optional one is needed
OptionalMemberUnguarded(o, p) == Member(o, p)

\* o?.p : optional chaining short-circuits to undefined on a nullish base
OptionalMember(o, p) ==
    IF IsNullish(o) THEN Undefined ELSE Member(o, p)

IsFalsy(x) == IsNullish(x) \/ x \in { Str(""), Num("0"), Bool("false") }

\* a slip: a || b, which replaces every falsy value
CoalesceLogicalOr(a, b) ==
    IF IsThrow(a) THEN a
    ELSE IF IsFalsy(a) THEN b
    ELSE a

\* a ?? b : nullish coalescing
Coalesce(a, b) ==
    IF IsThrow(a) THEN a
    ELSE IF IsNullish(a) THEN b
    ELSE a

\* ------------------------------------------------------------- handleError
FixedMessage == Str("An unexpected error occurred.")

\* a slip: a null fallback instead of the fallback string
UnknownAsNull == Null

Unknown == Str("UNKNOWN")

\* console.error('Client error:', error)
LogEntry(error) == [op |-> "console.error", args |-> <<Str("Client error:"), error>>]

\* a slip: the fallback of `code` is left out
NormalizedRecordNoFallback(error) ==
    [message |-> FixedMessage, code |-> OptionalMember(error, "code")]

\* a slip: the error's own message is passed on when it has one
NormalizedRecordOwnMessage(error) ==
    [message |-> Coalesce(OptionalMember(error, "message"), FixedMessage),
     code |-> Coalesce(OptionalMember(error, "code"), Unknown)]

\* a slip: the code falls back on the error's message before "UNKNOWN"
NormalizedRecordCodeFromMessage(error) ==
    [message |-> FixedMessage,
     code |-> Coalesce(Coalesce(OptionalMember(error, "code"),
                                OptionalMember(error, "message")), Unknown)]

\* the object literal of the return statement
NormalizedRecord(error) ==
    [message |-> FixedMessage, code |-> Coalesce(OptionalMember(error, "code"), Unknown)]

\* completion of the return statement: a value, or the exception raised while
\* the object literal was evaluated
Completion(error) ==
    LET rec == NormalizedRecord(error)
    IN  IF IsThrow(rec.code) THEN [op |-> "throw", value |-> rec.code]
        ELSE [op |-> "return", value |-> rec]

\* a slip: the console.error call is missing
handleErrorSilent(error, event) == << Completion(error) >>

\* the effects of one invocation, in program order
handleError(error, event) == << LogEntry(error), Completion(error) >>

\* ---------------------------------------------------------- service worker
SignalTypes == { "install", "activate", "fetch" }

\* a slip: the install listener calls clients.claim
InstallListenerClaims(w) == [w EXCEPT !.claim = @ + 1]

\* () => { self.skipWaiting(); }
InstallListener(w) == [w EXCEPT !.skipWaiting = @ + 1]

\* a slip: the activate listener calls skipWaiting
ActivateListenerSkips(w) == [w EXCEPT !.skipWaiting = @ + 1]

\* () => { self.clients.claim(); }
ActivateListener(w) == [w EXCEPT !.claim = @ + 1]

\* listeners registered by the two addEventListener calls of the script
Listeners == { "install", "activate" }

RunListener(type, w) ==
    IF type \notin Listeners THEN w
    ELSE IF type = "install" THEN InstallListener(w)
    ELSE ActivateListener(w)

\* --------------------------------------------------------------- the state
VARIABLES
    trace,       \* effects of the handleError invocations so far, in order
    invocations, \* the {error, event} arguments of those invocations
    delivered,   \* lifecycle signals dispatched to the worker, per type
    worker       \* calls received by self.skipWaiting / self.clients.claim

vars == << trace, invocations, delivered, worker >>

Init ==
    /\ trace = << >>
    /\ invocations = << >>
    /\ delivered = [s \in SignalTypes |-> 0]
    /\ worker = [skipWaiting |-> 0, claim |-> 0]

\* the framework hands an unhandled client error to the hook
HandleError(error, event) ==
    /\ Len(invocations) < MaxCalls
    /\ invocations' = Append(invocations, [error |-> error, event |-> event])
    /\ trace' = Append(trace, handleError(error, event))
    /\ UNCHANGED << delivered, worker >>

TotalDelivered == delivered["install"] + delivered["activate"] + delivered["fetch"]

\* the browser dispatches a lifecycle (or other) event to the worker
Dispatch(type) ==
    /\ TotalDelivered < MaxSignals
    /\ delivered' = [delivered EXCEPT ![type] = @ + 1]
    /\ worker' = RunListener(type, worker)
    /\ UNCHANGED << trace, invocations >>

Next ==
    \/ \E error \in ErrorValues, event \in EventValues : HandleError(error, event)
    \/ \E type \in SignalTypes : Dispatch(type)

Spec == Init /\ [][Next]_vars

\* ------------------------------------------------------------- properties
Calls == 1 .. Len(invocations)

ErrorOf(i) == invocations[i].error

EventOf(i) == invocations[i].event

\* how invocation i completed: the last of its effects
Outcome(i) == trace[i][Len(trace[i])]

Returned(i) == Outcome(i).op = "return"

LacksCode(e) == e.t = "object" /\ ~HasOwn(e, "code")

\* C1: for an error object lacking a `code` attribute, handleError returns a
\* record whose code is the string "UNKNOWN".
C1_LackingCodeGivesUnknown ==
    \A i \in Calls :
        LacksCode(ErrorOf(i)) =>
            Returned(i) /\ Outcome(i).value.code = Str("UNKNOWN")

C1_Witness ==
    \E i \in Calls :
        /\ ErrorOf(i) = Obj([message |-> Str("boom")])
        /\ Returned(i)
        /\ Outcome(i).value.code = Str("UNKNOWN")

\* C2 as stated: for an error object with a `code` attribute set to V,
\* handleError returns a record whose code is V, for every V (falsy values
\* and null included).
C2_CodePassedThroughForEveryValue ==
    \A i \in Calls :
        HasOwn(ErrorOf(i), "code") =>
            Returned(i) /\ Outcome(i).value.code = ErrorOf(i).v.code

\* C2 as amended: for an error object with a `code` attribute set to V,
\* handleError returns a record whose code is V for every V other than null
\* and undefined (the falsy "", 0 and false included); for null and
\* undefined the code is "UNKNOWN".
C2_CodePassedThroughUnlessNullish ==
    \A i \in Calls :
        HasOwn(ErrorOf(i), "code") =>
            /\ Returned(i)
            /\ Outcome(i).value.code =
                  IF IsNullish(ErrorOf(i).v.code) THEN Str("UNKNOWN")
                  ELSE ErrorOf(i).v.code

C2_Witness ==
    /\ \E i \in Calls :
          /\ ErrorOf(i) = Obj([code |-> Num("0")])
          /\ Returned(i) /\ Outcome(i).value.code = Num("0")
    /\ \E j \in Calls :
          /\ ErrorOf(j) = Obj([code |-> Null])
          /\ Returned(j) /\ Outcome(j).value.code = Str("UNKNOWN")

\* C3: the message of the record returned by handleError is always the fixed
\* string "An unexpected error occurred.", whatever the error and the event.
C3_MessageIsFixed ==
    \A i \in Calls :
        Returned(i) =>
            Outcome(i).value.message = Str("An unexpected error occurred.")

C3_Witness ==
    \E i \in Calls :
        /\ HasOwn(ErrorOf(i), "message")
        /\ HasOwn(ErrorOf(i), "code")
        /\ ErrorOf(i).v.message # Str("An unexpected error occurred.")
        /\ Returned(i)
        /\ Outcome(i).value.message = Str("An unexpected error occurred.")

\* C4: after any sequence of signals, the number of skipWaiting calls equals
\* the number of install signals delivered.
C4_SkipWaitingOncePerInstall == worker.skipWaiting = delivered["install"]

C4_Witness ==
    /\ delivered["install"] >= 1
    /\ delivered["activate"] >= 1
    /\ worker.skipWaiting >= 1

\* C5: after any sequence of signals, the number of clients.claim calls
\* equals the number of activate signals delivered.
C5_ClaimOncePerActivate == worker.claim = delivered["activate"]

C5_Witness ==
    /\ delivered["activate"] >= 1
    /\ delivered["fetch"] >= 1
    /\ worker.claim >= 1

\* C6: handleError never throws: for an object with or without `code`, a
\* primitive, null or undefined it completes by returning a normalized record.
C6_NeverThrows ==
    \A i \in Calls :
        Returned(i) /\ DOMAIN Outcome(i).value = {"message", "code"}

C6_Witness ==
    /\ \E i \in Calls : ErrorOf(i) \in {Null, Undefined} /\ Returned(i)
    /\ \E j \in Calls : ErrorOf(j) \in PrimitiveErrors /\ Returned(j)

\* C7 as stated: the code of every record returned by handleError is a
\* string.
C7_CodeIsAlwaysAString ==
    \A i \in Calls : Returned(i) => Outcome(i).value.code.t = "string"

\* C7 as amended: the code of every record returned by handleError is the
\* input error's `code` attribute or the fallback "UNKNOWN"; it is a string
\* whenever that attribute is a string, null, undefined or absent.
C7_CodeIsAttributeOrFallback ==
    \A i \in Calls :
        Returned(i) =>
            LET code == Outcome(i).value.code
                has == HasOwn(ErrorOf(i), "code")
            IN  /\ \/ code = Str("UNKNOWN")
                   \/ has /\ code = ErrorOf(i).v.code
                /\ (~has \/ IsNullish(ErrorOf(i).v.code)
                         \/ ErrorOf(i).v.code.t = "string")
                      => code.t = "string"

C7_Witness ==
    /\ \E i \in Calls :
          /\ ErrorOf(i) = Obj([code |-> Bool("false"), message |-> Str("boom")])
          /\ Returned(i) /\ Outcome(i).value.code.t = "boolean"
    /\ \E j \in Calls :
          /\ ErrorOf(j) = Undefined
          /\ Returned(j) /\ Outcome(j).value.code.t = "string"

IsLog(e) == e.op = "console.error"

\* C8: every invocation of handleError emits exactly one log entry, which
\* carries the original error, and emits it before the record is returned.
C8_LoggedOnceBeforeReturn ==
    /\ Len(trace) = Len(invocations)
    /\ \A i \in Calls :
          /\ Cardinality({ k \in DOMAIN trace[i] : IsLog(trace[i][k]) }) = 1
          /\ \E k \in DOMAIN trace[i] :
                /\ IsLog(trace[i][k])
                /\ \E a \in DOMAIN trace[i][k].args :
                      trace[i][k].args[a] = ErrorOf(i)
                /\ \E l \in DOMAIN trace[i] :
                      k < l /\ trace[i][l].op = "return"

C8_Witness ==
    /\ Len(invocations) = MaxCalls
    /\ \A i \in Calls :
          /\ IsLog(trace[i][1])
          /\ trace[i][1].args[2] = ErrorOf(i)
          /\ ErrorOf(i).t = "object"
          /\ trace[i][2].op = "return"
          /\ trace[i][2].value # ErrorOf(i)

\* the `code` attribute of an error: its value, or that there is none
CodeAttribute(e) ==
    IF HasOwn(e, "code") THEN [present |-> TRUE, value |-> e.v.code]
    ELSE [present |-> FALSE, value |-> Undefined]

\* C10: two invocations given errors with the same `code` return equal
\* records, whatever their events, the errors' other attributes and the
\* invocations of handleError and of the listeners that happened before.
C10_RecordDependsOnCodeOnly ==
    \A i \in Calls : \A j \in Calls :
        CodeAttribute(ErrorOf(i)) = CodeAttribute(ErrorOf(j)) =>
            /\ Returned(i) /\ Returned(j)
            /\ Outcome(i).value = Outcome(j).value

C10_Witness ==
    /\ delivered["install"] >= 1
    /\ \E i \in Calls : \E j \in Calls :
          /\ i < j
          /\ ErrorOf(i) # ErrorOf(j)
          /\ EventOf(i) # EventOf(j)
          /\ CodeAttribute(ErrorOf(i)) = CodeAttribute(ErrorOf(j))
          /\ Outcome(i) = Outcome(j)

====
